---- MODULE Spec2Model ----
(***************************************************************************)
(* Model of surreal_import/main.py: load_and_insert_data streams the        *)
(* elements of one top-level JSON array and writes every mapping element   *)
(* to SurrealDB with db.create, keeping the counters processed_count,      *)
(* inserted_count and failed_count, and main() calls it once per process.  *)
(***************************************************************************)
EXTENDS Integers, Sequences, FiniteSets

\* ---------------------------------------------------------------- bounds
MaxLen == 3      \* longest sequence of well-formed array elements
MaxRuns == 2     \* number of times main() is run against the same sink

\* ---------------------------------------------------------------- inputs
\* An array element as isinstance(record, dict) sees it: "recA" and "recB"
\* are mappings with two different identities, "str" is any other JSON value.
Mappings == {"recA", "recB"}
Elements == Mappings \cup {"str"}
\* What follows the well-formed elements in the byte source: the closing
\* bracket, malformed bytes (ijson.JSONError), or a read failure (any other
\* Exception raised by the parser).
Tails == {"end", "json", "io"}
\* open(file_path, 'rb'): succeeds, FileNotFoundError, another OSError.
FileStates == {"ok", "missing", "unreadable"}

RECURSIVE SeqsUpTo(_)
SeqsUpTo(n) ==
  IF n = 0 THEN {<<>>}
  ELSE LET shorter == SeqsUpTo(n - 1)
       IN  shorter \cup {Append(s, e) : s \in {t \in shorter : Len(t) = n - 1},
                                         e \in Elements}

VARIABLES
  file_state,       \* input: whether file_path can be opened
  doc,              \* input: the well-formed elements the decoder yields
  tail,             \* input: how the byte source ends after them
  store,            \* the sink: identities already created (kept across runs)
  run,              \* which run of main() this is
  pc,               \* position in load_and_insert_data
  exc,              \* exception propagating through the finally block
  db,               \* db is not None
  connected,        \* db.connect() has returned
  used,             \* db.use() has returned
  processed_count,
  inserted_count,
  failed_count,
  description,      \* progress task description
  task_completed,   \* progress task.completed
  task_total,       \* progress task.total (-1 is None)
  task_failed,      \* progress task.fields["failed"]
  logged,           \* log events emitted so far in this run
  summary,          \* the counters logged by the final log.info, <<>> before
  createCalls,      \* history: index of every record passed to db.create
  result,           \* history: per record, what happened to it
  bucket,           \* history: per record, the counter that was incremented
  closeCalls        \* history: number of db.close() calls in this run

inputs == <<file_state, doc, tail>>
conn == <<db, connected, used>>
counters == <<processed_count, inserted_count, failed_count>>
progress == <<description, task_completed, task_total, task_failed>>
history == <<createCalls, result, bucket, closeCalls>>
vars == <<inputs, store, run, pc, exc, conn, counters, progress, logged,
          summary, history>>

\* description.startswith("[bold red]")
IsBoldRed(d) == d \in {"JSONError", "UnexpectedError"}

isinstance_dict(record) == record \in Mappings

\* The locals of load_and_insert_data at entry.
Entry ==
  /\ pc = "start"
  /\ exc = "none"
  /\ db = FALSE /\ connected = FALSE /\ used = FALSE
  /\ processed_count = 0 /\ inserted_count = 0 /\ failed_count = 0
  /\ description = "none" /\ task_completed = 0 /\ task_total = -1
  /\ task_failed = 0
  /\ logged = {}
  /\ summary = <<>>
  /\ createCalls = <<>> /\ result = <<>> /\ bucket = <<>> /\ closeCalls = 0

Init ==
  /\ file_state \in FileStates
  /\ doc \in SeqsUpTo(MaxLen)
  /\ tail \in Tails
  /\ file_state # "ok" => (doc = <<>> /\ tail = "end")
  /\ store = {}
  /\ run = 1
  /\ Entry

\* ------------------------------------------------------------ connection
\* db = Surreal(database_url)
Construct ==
  /\ pc = "start"
  /\ \/ /\ db' = TRUE
        /\ pc' = "connect"
        /\ logged' = logged
     \/ /\ db' = FALSE
        /\ pc' = "finally"
        /\ logged' = logged \cup {"setup_error"}
  /\ UNCHANGED <<inputs, store, run, exc, connected, used, counters, progress,
                 summary, history>>

\* Variant: a failure of db.connect is swallowed without a log record.
Connect_SilentFailure ==
  /\ pc = "connect"
  /\ \/ /\ connected' = TRUE
        /\ pc' = "use"
     \/ /\ connected' = FALSE
        /\ pc' = "finally"
  /\ UNCHANGED <<inputs, store, run, exc, db, used, counters, progress,
                 logged, summary, history>>

\* db.connect()
Connect ==
  /\ pc = "connect"
  /\ \/ /\ connected' = TRUE
        /\ pc' = "use"
        /\ logged' = logged
     \/ /\ connected' = FALSE
        /\ pc' = "finally"
        /\ logged' = logged \cup {"setup_error"}
  /\ UNCHANGED <<inputs, store, run, exc, db, used, counters, progress,
                 summary, history>>

\* Variant: a failure of db.use is logged and streaming starts anyway.
Use_IgnoresFailure ==
  /\ pc = "use"
  /\ \/ /\ used' = TRUE
        /\ logged' = logged
     \/ /\ used' = FALSE
        /\ logged' = logged \cup {"setup_error"}
  /\ pc' = "open"
  /\ description' = "Streaming"
  /\ UNCHANGED <<inputs, store, run, exc, db, connected, counters,
                 task_completed, task_total, task_failed, summary, history>>

\* db.use(namespace, database), then the progress task is added
Use ==
  /\ pc = "use"
  /\ \/ /\ used' = TRUE
        /\ pc' = "open"
        /\ description' = "Streaming"
        /\ logged' = logged
     \/ /\ used' = FALSE
        /\ pc' = "finally"
        /\ description' = description
        /\ logged' = logged \cup {"setup_error"}
  /\ UNCHANGED <<inputs, store, run, exc, db, connected, counters,
                 task_completed, task_total, task_failed, summary, history>>

\* ------------------------------------------------------------- streaming
\* with open(file_path, 'rb') as f
Open ==
  /\ pc = "open"
  /\ \/ /\ file_state = "ok"
        /\ pc' = "next"
        /\ UNCHANGED <<logged, description>>
     \/ /\ file_state = "missing"          \* except FileNotFoundError
        /\ pc' = "final"
        /\ logged' = logged \cup {"file_not_found"}
        /\ description' = description
     \/ /\ file_state = "unreadable"       \* except Exception
        /\ pc' = "final"
        /\ logged' = logged \cup {"unexpected"}
        /\ description' = "UnexpectedError"
  /\ UNCHANGED <<inputs, store, run, exc, conn, counters, task_completed,
                 task_total, task_failed, summary, history>>

\* for record in parser: the parser yields the next element
NextRecord ==
  /\ pc = "next"
  /\ processed_count < Len(doc)
  /\ processed_count' = processed_count + 1
  /\ task_completed' = task_completed + 1
  /\ description' = "Processing"
  /\ pc' = "counted"
  /\ UNCHANGED <<inputs, store, run, exc, conn, inserted_count, failed_count,
                 task_total, task_failed, logged, summary, history>>

\* Variant: the JSONError handler logs but leaves the description alone.
DecodeEnd_Silent ==
  /\ pc = "next"
  /\ processed_count = Len(doc)
  /\ pc' = "final"
  /\ \/ /\ tail = "end"
        /\ UNCHANGED <<logged, description>>
     \/ /\ tail = "json"
        /\ logged' = logged \cup {"json_error"}
        /\ description' = description
     \/ /\ tail = "io"
        /\ logged' = logged \cup {"unexpected"}
        /\ description' = "UnexpectedError"
  /\ UNCHANGED <<inputs, store, run, exc, conn, counters, task_completed,
                 task_total, task_failed, summary, history>>

\* for record in parser: the parser is exhausted or raises
DecodeEnd ==
  /\ pc = "next"
  /\ processed_count = Len(doc)
  /\ pc' = "final"
  /\ \/ /\ tail = "end"
        /\ UNCHANGED <<logged, description>>
     \/ /\ tail = "json"                   \* except ijson.JSONError
        /\ logged' = logged \cup {"json_error"}
        /\ description' = "JSONError"
     \/ /\ tail = "io"                     \* except Exception
        /\ logged' = logged \cup {"unexpected"}
        /\ description' = "UnexpectedError"
  /\ UNCHANGED <<inputs, store, run, exc, conn, counters, task_completed,
                 task_total, task_failed, summary, history>>

\* Variant: the non-mapping branch forgets failed_count += 1.
SkipNonDict_Uncounted ==
  /\ pc = "counted"
  /\ ~isinstance_dict(doc[processed_count])
  /\ result' = Append(result, "nondict")
  /\ bucket' = Append(bucket, "failed")
  /\ pc' = "next"
  /\ UNCHANGED <<inputs, store, run, exc, conn, counters, progress, logged,
                 summary, createCalls, closeCalls>>

\* if not isinstance(record, dict): ... continue
SkipNonDict ==
  /\ pc = "counted"
  /\ ~isinstance_dict(doc[processed_count])
  /\ failed_count' = failed_count + 1
  /\ task_failed' = failed_count + 1
  /\ result' = Append(result, "nondict")
  /\ bucket' = Append(bucket, "failed")
  /\ pc' = "next"
  /\ UNCHANGED <<inputs, store, run, exc, conn, processed_count,
                 inserted_count, description, task_completed, task_total,
                 logged, summary, createCalls, closeCalls>>

\* Variant: the write is started without waiting for its result, as in an
\* asynchronous client whose call is not awaited.
IssueCreate_NotAwaited ==
  /\ pc = "counted"
  /\ isinstance_dict(doc[processed_count])
  /\ createCalls' = Append(createCalls, processed_count)
  /\ pc' = "next"
  /\ UNCHANGED <<inputs, store, run, exc, conn, counters, progress, logged,
                 summary, result, bucket, closeCalls>>

\* Variant: the isinstance check is missing, every element is written.
IssueCreate_Unchecked ==
  /\ pc = "counted"
  /\ createCalls' = Append(createCalls, processed_count)
  /\ pc' = "create"
  /\ UNCHANGED <<inputs, store, run, exc, conn, counters, progress, logged,
                 summary, result, bucket, closeCalls>>

\* created = db.create(table_name, record): the call is issued
IssueCreate ==
  /\ pc = "counted"
  /\ isinstance_dict(doc[processed_count])
  /\ createCalls' = Append(createCalls, processed_count)
  /\ pc' = "create"
  /\ UNCHANGED <<inputs, store, run, exc, conn, counters, progress, logged,
                 summary, result, bucket, closeCalls>>

\* What the sink can answer for a record: it enforces identity uniqueness.
SinkAnswers(record) ==
  IF record \in store THEN {"conflict", "raise"}
  ELSE {"truthy", "falsy", "raise"}

\* if created: inserted_count += 1
CreateTruthy ==
  /\ pc = "create"
  /\ "truthy" \in SinkAnswers(doc[processed_count])
  /\ store' = store \cup {doc[processed_count]}
  /\ inserted_count' = inserted_count + 1
  /\ result' = Append(result, "truthy")
  /\ bucket' = Append(bucket, "inserted")
  /\ pc' = "next"
  /\ UNCHANGED <<inputs, run, exc, conn, processed_count, failed_count,
                 progress, logged, summary, createCalls, closeCalls>>

\* Variant: the result of db.create is not tested, a falsy result counts as
\* inserted.
CreateFalsy_CountsInserted ==
  /\ pc = "create"
  /\ "falsy" \in SinkAnswers(doc[processed_count])
  /\ inserted_count' = inserted_count + 1
  /\ result' = Append(result, "falsy")
  /\ bucket' = Append(bucket, "inserted")
  /\ pc' = "next"
  /\ UNCHANGED <<inputs, store, run, exc, conn, processed_count, failed_count,
                 progress, logged, summary, createCalls, closeCalls>>

\* Variant: a falsy result is counted in failed_count twice.
CreateFalsy_CountedTwice ==
  /\ pc = "create"
  /\ "falsy" \in SinkAnswers(doc[processed_count])
  /\ failed_count' = failed_count + 2
  /\ task_failed' = failed_count + 2
  /\ result' = Append(result, "falsy")
  /\ bucket' = Append(bucket, "failed")
  /\ pc' = "next"
  /\ UNCHANGED <<inputs, store, run, exc, conn, processed_count,
                 inserted_count, description, task_completed, task_total,
                 logged, summary, createCalls, closeCalls>>

\* else: failed_count += 1
CreateFalsy ==
  /\ pc = "create"
  /\ "falsy" \in SinkAnswers(doc[processed_count])
  /\ failed_count' = failed_count + 1
  /\ task_failed' = failed_count + 1
  /\ result' = Append(result, "falsy")
  /\ bucket' = Append(bucket, "failed")
  /\ pc' = "next"
  /\ UNCHANGED <<inputs, store, run, exc, conn, processed_count,
                 inserted_count, description, task_completed, task_total,
                 logged, summary, createCalls, closeCalls>>

\* Variant: no try around db.create, the exception reaches the handler of
\* the streaming loop and ends the loop.
CreateRaises_Escapes ==
  /\ pc = "create"
  /\ \E answer \in SinkAnswers(doc[processed_count]) \cap {"conflict", "raise"} :
       result' = Append(result, answer)
  /\ bucket' = Append(bucket, "failed")
  /\ failed_count' = failed_count + 1
  /\ task_failed' = failed_count + 1
  /\ logged' = logged \cup {"unexpected"}
  /\ description' = "UnexpectedError"
  /\ pc' = "final"
  /\ UNCHANGED <<inputs, store, run, exc, conn, processed_count,
                 inserted_count, task_completed, task_total, summary,
                 createCalls, closeCalls>>

\* Variant: a write that raised is attempted again.
CreateRaises_Retries ==
  /\ pc = "create"
  /\ Len(createCalls) < processed_count + 1
  /\ "raise" \in SinkAnswers(doc[processed_count])
  /\ logged' = logged \cup {"insert_error"}
  /\ createCalls' = Append(createCalls, processed_count)
  /\ pc' = "create"
  /\ UNCHANGED <<inputs, store, run, exc, conn, counters, progress, summary,
                 result, bucket, closeCalls>>

\* except Exception as e: failed_count += 1
CreateRaises ==
  /\ pc = "create"
  /\ \E answer \in SinkAnswers(doc[processed_count]) \cap {"conflict", "raise"} :
       result' = Append(result, answer)
  /\ failed_count' = failed_count + 1
  /\ task_failed' = failed_count + 1
  /\ bucket' = Append(bucket, "failed")
  /\ logged' = logged \cup {"insert_error"}
  /\ pc' = "next"
  /\ UNCHANGED <<inputs, store, run, exc, conn, processed_count,
                 inserted_count, description, task_completed, task_total,
                 summary, createCalls, closeCalls>>

\* Final update to the progress description after the loop
FinalStatus ==
  /\ pc = "final"
  /\ IF ~IsBoldRed(description)
     THEN /\ description' = "Finished"
          /\ task_total' = processed_count
          /\ task_completed' = processed_count
     ELSE UNCHANGED <<description, task_total, task_completed>>
  /\ pc' = "summary"
  /\ UNCHANGED <<inputs, store, run, exc, conn, counters, task_failed, logged,
                 summary, history>>

\* log.info("Data processing complete. Processed: ..., Inserted: ..., Failed ...")
LogSummary ==
  /\ pc = "summary"
  /\ summary' = <<processed_count, inserted_count, failed_count>>
  /\ pc' = "finally"
  /\ UNCHANGED <<inputs, store, run, exc, conn, counters, progress, logged,
                 history>>

\* ----------------------------------------------------------- cancellation
\* KeyboardInterrupt is not an Exception: no handler of the function catches
\* it, only the finally block runs.
InterruptiblePcs == {"connect", "use", "open", "next", "counted", "create",
                     "final", "summary"}

Interrupt ==
  /\ pc \in InterruptiblePcs
  /\ exc' = "KeyboardInterrupt"
  /\ pc' = "finally"
  /\ UNCHANGED <<inputs, store, run, conn, counters, progress, logged,
                 summary, history>>

\* Variant: no try around db.close(), its exception leaves the function.
Finally_CloseRaises ==
  /\ pc = "finally"
  /\ IF db
     THEN /\ closeCalls' = closeCalls + 1
          /\ \/ /\ logged' = logged
                /\ pc' = IF exc = "none" THEN "returned" ELSE "raised"
             \/ /\ logged' = logged \cup {"close_error"}
                /\ pc' = "raised"
     ELSE /\ UNCHANGED <<closeCalls, logged>>
          /\ pc' = IF exc = "none" THEN "returned" ELSE "raised"
  /\ UNCHANGED <<inputs, store, run, exc, conn, counters, progress, summary,
                 createCalls, result, bucket>>

\* Variant: db.close() sits at the end of the try body instead of in the
\* finally block, so it runs only after the final summary.
Finally_CloseInTry ==
  /\ pc = "finally"
  /\ IF db /\ summary # <<>> /\ exc = "none"
     THEN /\ closeCalls' = closeCalls + 1
          /\ \/ logged' = logged
             \/ logged' = logged \cup {"close_error"}
     ELSE UNCHANGED <<closeCalls, logged>>
  /\ pc' = IF exc = "none" THEN "returned" ELSE "raised"
  /\ UNCHANGED <<inputs, store, run, exc, conn, counters, progress, summary,
                 createCalls, result, bucket>>

\* finally: if db: db.close()
Finally ==
  /\ pc = "finally"
  /\ IF db
     THEN /\ closeCalls' = closeCalls + 1
          /\ \/ logged' = logged
             \/ logged' = logged \cup {"close_error"}
     ELSE UNCHANGED <<closeCalls, logged>>
  /\ pc' = IF exc = "none" THEN "returned" ELSE "raised"
  /\ UNCHANGED <<inputs, store, run, exc, conn, counters, progress, summary,
                 createCalls, result, bucket>>

\* ------------------------------------------------------------------ main
\* The script is run again on the same file against the same sink.
Rerun ==
  /\ pc \in {"returned", "raised"}
  /\ run < MaxRuns
  /\ run' = run + 1
  /\ pc' = "start"
  /\ exc' = "none"
  /\ db' = FALSE /\ connected' = FALSE /\ used' = FALSE
  /\ processed_count' = 0 /\ inserted_count' = 0 /\ failed_count' = 0
  /\ description' = "none" /\ task_completed' = 0 /\ task_total' = -1
  /\ task_failed' = 0
  /\ logged' = {}
  /\ summary' = <<>>
  /\ createCalls' = <<>> /\ result' = <<>> /\ bucket' = <<>>
  /\ closeCalls' = 0
  /\ UNCHANGED <<inputs, store>>

Next ==
  \/ Construct
  \/ Connect
  \/ Use
  \/ Open
  \/ NextRecord
  \/ DecodeEnd
  \/ SkipNonDict
  \/ IssueCreate
  \/ CreateTruthy
  \/ CreateFalsy
  \/ CreateRaises
  \/ FinalStatus
  \/ LogSummary
  \/ Interrupt
  \/ Finally
  \/ Rerun

Spec == Init /\ [][Next]_vars

\* The exit status of the process: main() calls load_and_insert_data and
\* falls off its end, the script never calls sys.exit; an exception that
\* leaves main() ends the interpreter with a failure status.
ExitStatus == IF pc = "raised" THEN 1 ELSE 0

\* The statements of load_and_insert_data: the function is sequential code,
\* and every call it makes (connect, use, open, the parser, create, close)
\* returns or raises, so the statement at pc is eventually executed.
Step ==
  \/ Construct
  \/ Connect
  \/ Use
  \/ Open
  \/ NextRecord
  \/ DecodeEnd
  \/ SkipNonDict
  \/ IssueCreate
  \/ CreateTruthy
  \/ CreateFalsy
  \/ CreateRaises
  \/ FinalStatus
  \/ LogSummary
  \/ Finally

FairSpec == Spec /\ WF_vars(Step)

\* ================================================================ claims
Count(seq, v) == Cardinality({i \in DOMAIN seq : seq[i] = v})

\* A sink answer after which the code takes a failure branch.
FailingResults == {"nondict", "falsy", "raise", "conflict"}

\* The byte source is a valid array document of Len(doc) elements.
ValidDocument == file_state = "ok" /\ tail = "end"

\* A run that ended as a normal completed run: the counters were logged and
\* the progress surface shows "Streaming finished".
Completed == pc = "returned" /\ summary # <<>> /\ description = "Finished"

\* C1: when the run reaches its final summary, inserted + failed = processed
\* in the logged counters (there is no duplicate counter), and for a valid
\* array document of N elements processed = N, whatever the sink answered.
C1_SummaryAccountsForAll ==
  summary # <<>> =>
    /\ summary = <<processed_count, inserted_count, failed_count>>
    /\ summary[2] + summary[3] = summary[1]
    /\ ValidDocument => summary[1] = Len(doc)

C1_Witness ==
  /\ summary # <<>>
  /\ ValidDocument
  /\ Len(doc) >= 2
  /\ inserted_count >= 1
  /\ failed_count >= 1

\* C2: a db.create that raises fails that record alone: failed_count is the
\* number of records whose own handling failed, and for a valid document
\* every one of the N elements has an outcome at the summary, for any subset
\* of raising writes.
C2_FaultIsolation ==
  /\ \A i \in DOMAIN result :
       result[i] \in {"raise", "conflict"} => bucket[i] = "failed"
  /\ Len(bucket) = Len(result)
  /\ failed_count = Cardinality({i \in DOMAIN result : result[i] \in FailingResults})
  /\ (summary # <<>> /\ ValidDocument) =>
       (Len(result) = Len(doc) /\ processed_count = Len(doc))

C2_Witness ==
  /\ summary # <<>>
  /\ ValidDocument
  /\ Len(result) >= 2
  /\ result[1] = "raise"
  /\ bucket[Len(bucket)] = "inserted"

\* C3: an element that is not a mapping is counted failed (failed_count
\* only) without any db.create call for it, db.create only ever receives
\* mappings, and the elements after it are still processed.
C3_NonMappingNotWritten ==
  /\ \A k \in DOMAIN createCalls : isinstance_dict(doc[createCalls[k]])
  /\ \A i \in DOMAIN result :
       ~isinstance_dict(doc[i]) =>
         /\ result[i] = "nondict"
         /\ bucket[i] = "failed"
         /\ \A k \in DOMAIN createCalls : createCalls[k] # i
  /\ failed_count = Count(bucket, "failed")
  /\ inserted_count = Count(bucket, "inserted")
  /\ pc = "next" => Len(result) = processed_count
  /\ (summary # <<>> /\ ValidDocument) => Len(result) = Len(doc)

C3_Witness ==
  /\ summary # <<>>
  /\ Len(doc) >= 3
  /\ doc[2] = "str"
  /\ result[1] = "truthy"
  /\ result[2] = "nondict"
  /\ Len(result) = Len(doc)
  /\ processed_count = 3
  /\ inserted_count = 2
  /\ failed_count = 1
  /\ createCalls = <<1, 3>>

\* C4 (as claimed): a write that the sink rejects because the identity
\* already exists is counted as a duplicate and not in failed_count.
C4_DuplicateNotFailed ==
  \A i \in DOMAIN result : result[i] = "conflict" => bucket[i] # "failed"

\* C5: whenever the function is left (by return or by a propagating
\* exception) after the connection object was created, db.close was called.
C5_ClosedOnEveryExit ==
  (pc \in {"returned", "raised"} /\ db) => closeCalls >= 1

C5_Witness ==
  /\ pc = "returned"
  /\ connected
  /\ "json_error" \in logged
  /\ closeCalls = 1

\* C6: no record is decoded and no db.create is issued before db.connect
\* and db.use have both succeeded in this run; when connect or use fails the
\* run returns with the setup error logged, no summary, zero records
\* processed and exactly one db.close call.
C6_SetupBeforeRecords ==
  /\ (processed_count > 0 \/ createCalls # <<>>
        \/ pc \in {"open", "next", "counted", "create"}) => (connected /\ used)
  /\ (pc = "returned" /\ db /\ ~(connected /\ used)) =>
       /\ "setup_error" \in logged
       /\ summary = <<>>
       /\ processed_count = 0
       /\ createCalls = <<>>
       /\ closeCalls = 1

C6_Witness ==
  /\ pc = "returned"
  /\ connected
  /\ ~used
  /\ closeCalls = 1
  /\ Len(doc) >= 1

\* C7: after the decoder fails on malformed input behind k well-formed
\* elements, exactly k outcomes are recorded (processed = k = inserted +
\* failed), the loop is never re-entered, so no write follows, and the run
\* returns with the decode error reported instead of "Streaming finished".
C7_DecodeErrorKeepsOutcomes ==
  "json_error" \in logged =>
    /\ pc \notin {"next", "counted", "create"}
    /\ processed_count = Len(doc)
    /\ Len(bucket) = Len(doc)
    /\ processed_count = inserted_count + failed_count
    /\ Len(createCalls) = Cardinality({i \in DOMAIN doc : isinstance_dict(doc[i])})
    /\ pc = "returned" => (description = "JSONError" /\ ~Completed)

C7_Witness ==
  /\ pc = "returned"
  /\ "json_error" \in logged
  /\ Len(doc) >= 2
  /\ inserted_count >= 1

\* C8 (as claimed): when the input file is not found, nothing is processed
\* or written and the run does not end as a completed run.
C8_MissingFileAborts ==
  (pc = "returned" /\ "file_not_found" \in logged) =>
    /\ processed_count = 0
    /\ createCalls = <<>>
    /\ ~Completed

\* C9: every decoded mapping record is passed to db.create exactly once:
\* never twice, whatever the write answered, and none is skipped once its
\* turn in the loop is over.
C9_SubmittedExactlyOnce ==
  /\ \A j, k \in DOMAIN createCalls : createCalls[j] = createCalls[k] => j = k
  /\ \A i \in DOMAIN result :
       isinstance_dict(doc[i]) => \E k \in DOMAIN createCalls : createCalls[k] = i
  /\ (exc = "none" /\ pc \in {"next", "final", "summary", "returned"}) =>
       \A i \in 1..processed_count :
         isinstance_dict(doc[i]) =>
           Cardinality({k \in DOMAIN createCalls : createCalls[k] = i}) = 1
  /\ (summary # <<>> /\ ValidDocument) => processed_count = Len(doc)

C9_Witness ==
  /\ pc = "returned"
  /\ summary # <<>>
  /\ createCalls = <<1, 2>>
  /\ result = <<"raise", "falsy">>

\* C10 (as claimed): in every state a reader can sample, processed equals
\* the sum of the outcome counters.
C10_NoPartialUpdate ==
  processed_count = inserted_count + failed_count

\* The function was left, by return or by a propagating exception.
Terminal == pc \in {"returned", "raised"}

\* A record was counted as processed and has no outcome: the interrupt came
\* while it was being validated or written.
InterruptedInRecord ==
  exc = "KeyboardInterrupt" /\ processed_count > Len(bucket)

\* C11 (as claimed): after a cancellation that arrives while a record is
\* being handled, the connection is closed and the function still returns
\* with the counters of the work done reported, instead of an exception
\* reaching the caller.
C11_CancellationReportsSummary ==
  (Terminal /\ InterruptedInRecord) =>
    /\ closeCalls >= 1
    /\ pc = "returned"
    /\ summary # <<>>

\* C12: with a finite input and sink calls that return or raise, every run
\* that is started terminates, and a run that returns has logged the final
\* summary of the counters or the fatal error of the connection setup.
C12_RunTerminates ==
  /\ [](pc = "returned" => (summary # <<>> \/ "setup_error" \in logged))
  /\ [](pc = "returned" => ~(summary # <<>> /\ "setup_error" \in logged))
  /\ (pc = "start") ~> Terminal

C12_Witness ==
  /\ pc = "returned"
  /\ run = 2
  /\ summary # <<>>
  /\ Len(doc) >= 2
  /\ "insert_error" \in logged

\* Writes issued and not yet answered: db.create calls minus the records
\* whose write has returned or raised.
InFlight ==
  Len(createCalls) - Cardinality({i \in DOMAIN result : result[i] # "nondict"})

\* C13: at most one db.create call is in flight at any instant, one is in
\* flight exactly while the code is inside db.create (or was interrupted
\* there), and a write therefore starts only after the previous one has
\* returned or raised.
C13_WritesSerialized ==
  /\ InFlight \in {0, 1}
  /\ pc = "create" => InFlight = 1
  /\ pc \in {"next", "counted"} => InFlight = 0

C13_Witness ==
  /\ pc = "create"
  /\ Len(createCalls) = 2
  /\ Len(result) = 1
  /\ InFlight = 1

\* C14: a write that returns a falsy value without raising adds one to
\* failed_count and nothing to inserted_count; a write that returns a truthy
\* value adds one to inserted_count and nothing to failed_count.
C14_FalsyIsFailed ==
  /\ \A i \in DOMAIN result :
       /\ result[i] = "falsy" => bucket[i] = "failed"
       /\ result[i] = "truthy" => bucket[i] = "inserted"
  /\ inserted_count = Count(result, "truthy")
  /\ failed_count = Cardinality(DOMAIN result) - Count(result, "truthy")

C14_Witness ==
  /\ pc = "next"
  /\ result = <<"falsy", "truthy">>
  /\ inserted_count = 1
  /\ failed_count = 1

\* A fatal error of the run was reported.
FatalLogged ==
  logged \cap {"setup_error", "file_not_found", "json_error", "unexpected"} # {}

\* C15 (as claimed): the process exits with status 0 when the run completed
\* and with a non-zero status when the run ended on a fatal error.
C15_ExitStatusTellsAbort ==
  pc = "returned" =>
    /\ ~FatalLogged => ExitStatus = 0
    /\ FatalLogged => ExitStatus # 0

\* C16 (as claimed): once the final status has been written, it is
\* "Streaming finished" with total = completed = processed_count when the
\* loop ended without fatal error, and it is not "Streaming finished" after
\* a JSON error, a missing input file or an unexpected exception.
C16_FinishedOnlyWithoutFatalError ==
  (pc \in {"summary", "finally", "returned"} /\ used /\ exc = "none") =>
    /\ ~FatalLogged =>
         /\ description = "Finished"
         /\ task_total = processed_count
         /\ task_completed = processed_count
    /\ FatalLogged => description # "Finished"

\* C17: no failure of connect, use, open, the decoder, create or close
\* leaves the function as an exception: only an interrupt does, and a run
\* without interrupt returns normally whether it completed or failed.
C17_FailuresAbsorbed ==
  /\ pc = "raised" => exc = "KeyboardInterrupt"
  /\ (Terminal /\ exc = "none") => (pc = "returned" /\ ExitStatus = 0)

C17_Witness ==
  /\ pc = "returned"
  /\ "close_error" \in logged
  /\ "json_error" \in logged
  /\ "insert_error" \in logged

\* C18: within a run the counters are non-negative and never decrease, and
\* processed_count - (inserted_count + failed_count) is 0 or 1: it is 1
\* exactly when the current record has been counted and has no outcome
\* yet, and 0 whenever the loop is between records.
C18_CounterGap ==
  /\ [](/\ processed_count >= 0 /\ inserted_count >= 0 /\ failed_count >= 0
        /\ processed_count - (inserted_count + failed_count) \in {0, 1}
        /\ processed_count - (inserted_count + failed_count)
             = processed_count - Len(bucket)
        /\ pc \in {"counted", "create"} =>
             processed_count - (inserted_count + failed_count) = 1
        /\ pc \in {"open", "next", "final", "summary", "returned"} =>
             processed_count - (inserted_count + failed_count) = 0)
  /\ [][run' = run =>
          /\ processed_count' >= processed_count
          /\ inserted_count' >= inserted_count
          /\ failed_count' >= failed_count]_vars

C18_Witness ==
  /\ pc = "create"
  /\ processed_count = 3
  /\ inserted_count = 1
  /\ failed_count = 1

====
